---- MODULE Spec2Model ----
(***************************************************************************)
(* Model of the storefront back end: the in-memory repository MemStorage   *)
(* (server/storage.ts) and the HTTP handlers that drive it                 *)
(* (server/routes.ts, server/routes/inventory.ts).                         *)
(*                                                                         *)
(* A request handler of the in-memory repository is one action.  The calls *)
(* of DatabaseStorage.updateProductStock (server/database-storage.ts) are   *)
(* one action per statement sent to the database, and overlap.             *)
(* Every handler leaves a record of the request and of its answer in the   *)
(* variable last, so that properties of "the call that just returned" are  *)
(* state predicates.                                                       *)
(***************************************************************************)
EXTENDS Integers, Sequences, FiniteSets, TLC

VARIABLES
    users,          \* MemStorage.users: the values of Map<number, User>
    pendingUsers,   \* MemStorage.pendingUsers: the entries of Map<email, pending>
    products,       \* MemStorage.products: the values of Map<number, Product>
    inventoryLogs,  \* MemStorage.inventoryLogs: the values, in insertion order
    currentInventoryLogId,  \* MemStorage.currentInventoryLogId
    addresses,      \* MemStorage.addresses: the values of Map<number, UserAddress>
    currentIds,     \* MemStorage.currentIds
    session,        \* req.session.user of the client
    now,            \* the wall clock, in ms since the process started
    verified,       \* history: the e-mails whose stored code a verify request
                    \* has been answered valid for
    inflight,       \* the requests a handler has begun and not yet answered
    userJson,       \* the snapshot file user.json
    resetTokens,    \* resetToken and resetTokenExpiry of the users that
                    \* have them, by user id
    dbUsers,        \* the rows of the users table of DatabaseStorage
    last            \* the request answered by the step that led here

vars == <<users, pendingUsers, products, inventoryLogs, currentInventoryLogId,
          addresses, currentIds, session, now, verified, inflight,
          userJson, resetTokens, dbUsers, last>>

regVars == <<users, pendingUsers>>
invVars == <<products, inventoryLogs, currentInventoryLogId>>
addrVars == <<addresses>>

(***************************************************************************)
(* Program constants.                                                      *)
(***************************************************************************)
AdminEmail == "vinayak.dhiman.012@gmail.com"
AdminPassword == "admin123"

\* 30 * 60 * 1000 ms: the life time of a verification code
TokenTTL == 30 * 60 * 1000

\* z.string().min(6) of verifyEmailSchema.token and of
\* completeRegistrationSchema.password
MinTokenLen == 6
MinPasswordLen == 6

\* product.minStock ?? 5 (createProduct), product.minStock || 5
DefaultMinStock == 5

(***************************************************************************)
(* Bounds of the model and the inputs the requests are drawn from.         *)
(***************************************************************************)
\* the clock is observed at k * TokenTTL + s, k <= MaxPeriods, s <= MaxSkew
MaxPeriods == 1
MaxSkew == 1

\* e-mail addresses a client may send; the last one is not an address
NewEmails == {"asha@example.com", "ravi@example.com"}
EmailInputs == NewEmails \cup {AdminEmail, "not-an-email"}

\* codes randomBytes(3).toString('hex').toUpperCase() may give
Tokens == {"A1B2C3", "00FF7E"}
\* codes a client may send: the issued ones, one in the wrong case, a short one
TokenInputs == Tokens \cup {"a1b2c3", "A1B"}

\* passwords a client may send; the last one is too short
PasswordInputs == {"secret1", "hunter22", "abc"}
\* confirmPassword: the password again, or another string
ConfirmInputs(password) == {password, "mistyped"}

TickSteps == {1, TokenTTL - 1, TokenTTL}

\* credentials a client may send to the login route
LoginEmails == {AdminEmail, "asha@example.com", "not-an-email"}
LoginPasswords == {AdminPassword, "secret1"}

\* entries the ledger may hold
MaxLogs == 3
\* the seeded products and an id no product has
SeededIds == {1, 2}
ProductIdInputs == SeededIds \cup {9}
\* body.quantity of a stock adjustment: a number, or a value isNaN rejects
NotANumber == [nan |-> TRUE]
QuantityInputs ==
    {[value |-> q] : q \in {-1000, -7, 0, 5}} \cup {NotANumber}
\* body of POST /logs
LogQuantityInputs == {5}
LogTypeInputs == {"adjust"}
\* the threshold of the query string; "" when it is not given
ThresholdQueries == {"", "0", "5", "12"}

\* calls of DatabaseStorage.updateProductStock that overlap
MaxInflight == 2
\* quantityChange of those calls
DbQuantityInputs == {-7, 5}

\* :id of the admin routes: the seeded user, the first registered user, and
\* an id no user has
UserIdInputs == {1, 2, 9}

\* addresses ever created
MaxAddresses == 3
UserIds == {1, 2}
IsPrimaryInputs == {"true", "false", "null", "undefined"}

\* rows ever inserted in user_addresses
MaxDbAddresses == 2
\* id of updateUserAddress under DatabaseStorage: the first row, and an id
\* no row has
DbAddressIdInputs == {1, 9}
\* isPrimary of the calls under DatabaseStorage other than true
DbIsPrimaryInputs == {"false", "undefined"}

Undefined == [undefined |-> TRUE]

\* user.json before anything wrote it.  require: whether require is defined
\* in the module of getAllUsers, "unknown" until getAllUsers has run once
NoFile == [require |-> "unknown", written |-> FALSE, users |-> {}]

(***************************************************************************)
(* Schema validation (shared/schema.ts).                                   *)
(***************************************************************************)
\* z.string().email(): the strings of EmailInputs that are addresses
IsEmail(s) == s \in NewEmails \cup {AdminEmail}

registrationInitSchema(body) == IsEmail(body.email)

verifyEmailSchema(body) == IsEmail(body.email) /\ Len(body.token) >= MinTokenLen

completeRegistrationSchema(body) ==
    /\ IsEmail(body.email)
    /\ Len(body.password) >= MinPasswordLen
    /\ body.password = body.confirmPassword

(***************************************************************************)
(* MemStorage: users and pending registrations.                            *)
(***************************************************************************)
\* Map.set(key, value) on the entries of a map keyed by field k
MapSet(entries, k, value) == {e \in entries : e[k] # value[k]} \cup {value}

\* Map.delete(key)
MapDelete(entries, k, key) == {e \in entries : e[k] # key}

\* Map.get(key)
MapGet(entries, k, key) ==
    IF \E e \in entries : e[k] = key
    THEN CHOOSE e \in entries : e[k] = key
    ELSE Undefined

\* a slip of getUserByEmail: users that are verified are passed over
getUserByEmail_unverifiedOnly(us, email) ==
    LET found == {u \in us : u.email = email /\ ~u.isVerified}
    IN  IF found = {} THEN Undefined
        ELSE CHOOSE u \in found : \A v \in found : u.id <= v.id

\* a slip of getUserByEmail: the lookup finds nobody
getUserByEmail_none(us, email) == Undefined

\* Array.from(this.users.values()).find(user => user.email === email):
\* the first user in insertion order, which is the order of the ids
getUserByEmail(us, email) ==
    LET found == {u \in us : u.email = email}
    IN  IF found = {} THEN Undefined
        ELSE CHOOSE u \in found : \A v \in found : u.id <= v.id

\* the user createUser builds for (id, userData); isAdmin is not given by
\* any caller, so it is decided by the address
NewUser(id, email, password, isVerified) ==
    [id |-> id, email |-> email, password |-> password,
     isVerified |-> isVerified, isAdmin |-> (email = AdminEmail),
     isSuspended |-> FALSE]

\* createUser: the store and the counter after the call
createUser(us, ids, email, password, isVerified) ==
    [users |-> MapSet(us, "id", NewUser(ids.user, email, password, isVerified)),
     currentIds |-> [ids EXCEPT !.user = @ + 1],
     user |-> NewUser(ids.user, email, password, isVerified)]

getPendingUserByEmail(pending, email) == MapGet(pending, "email", email)

\* a slip of createPendingUser: a record already pending is kept as it is
createPendingUser_keepsExisting(us, pending, email, verificationToken, tokenExpiry) ==
    IF \E u \in us : u.email = email
    THEN [error |-> "User with this email already exists",
          pendingUsers |-> pending]
    ELSE IF \E p \in pending : p.email = email
    THEN [error |-> "", pendingUsers |-> pending]
    ELSE [error |-> "",
          pendingUsers |-> pending \cup
                              {[email |-> email,
                                verificationToken |-> verificationToken,
                                verificationTokenExpiry |-> tokenExpiry]}]

\* createPendingUser: error is the message thrown, "" when it returns
createPendingUser(us, pending, email, verificationToken, tokenExpiry) ==
    IF getUserByEmail(us, email) # Undefined
    THEN [error |-> "User with this email already exists",
          pendingUsers |-> pending]
    ELSE [error |-> "",
          pendingUsers |-> MapSet(pending, "email",
                              [email |-> email,
                               verificationToken |-> verificationToken,
                               verificationTokenExpiry |-> tokenExpiry])]

\* a slip of the expiry test: >= for >
Expired_offByOne(t, expiry) == t >= expiry

\* new Date() > pendingUser.verificationTokenExpiry
Expired(t, expiry) == t > expiry

\* a slip of verifyEmailToken: the code sent is not compared
verifyEmailToken_anyToken(pending, t, email, token) ==
    \E p \in pending : p.email = email /\ t <= p.verificationTokenExpiry

verifyEmailToken(pending, t, email, token) ==
    LET pendingUser == getPendingUserByEmail(pending, email)
    IN  IF pendingUser = Undefined \/ pendingUser.verificationToken = ""
        THEN FALSE
        ELSE IF pendingUser.verificationToken # token
        THEN FALSE
        ELSE IF Expired(t, pendingUser.verificationTokenExpiry)
        THEN FALSE
        ELSE TRUE

\* a slip of completeUserRegistration: the pending record is not deleted
completeUserRegistration_keepsPending(us, pending, ids, email, password) ==
    IF ~\E p \in pending : p.email = email
    THEN [error |-> "No pending registration found for this email",
          users |-> us, pendingUsers |-> pending, currentIds |-> ids,
          user |-> Undefined]
    ELSE [error |-> "",
          users |-> us \cup {[id |-> ids.user, email |-> email,
                              password |-> password, isVerified |-> TRUE,
                              isAdmin |-> FALSE, isSuspended |-> FALSE]},
          pendingUsers |-> pending,
          currentIds |-> [ids EXCEPT !.user = @ + 1],
          user |-> [id |-> ids.user, email |-> email,
                    password |-> password, isVerified |-> TRUE,
                    isAdmin |-> FALSE, isSuspended |-> FALSE]]

\* a slip of completeUserRegistration: the pending record is not looked up
completeUserRegistration_noCheck(us, pending, ids, email, password) ==
    [error |-> "",
     users |-> us \cup {[id |-> ids.user, email |-> email,
                         password |-> password, isVerified |-> TRUE,
                         isAdmin |-> FALSE, isSuspended |-> FALSE]},
     pendingUsers |-> {p \in pending : p.email # email},
     currentIds |-> [ids EXCEPT !.user = @ + 1],
     user |-> [id |-> ids.user, email |-> email,
               password |-> password, isVerified |-> TRUE,
               isAdmin |-> FALSE, isSuspended |-> FALSE]]

\* a slip of completeUserRegistration: a record whose code has expired is
\* treated as missing
completeUserRegistration_rechecksExpiry(us, pending, ids, email, password) ==
    IF ~\E p \in pending : p.email = email /\ now <= p.verificationTokenExpiry
    THEN [error |-> "No pending registration found for this email",
          users |-> us, pendingUsers |-> pending, currentIds |-> ids,
          user |-> Undefined]
    ELSE [error |-> "",
          users |-> us \cup {[id |-> ids.user, email |-> email,
                              password |-> password, isVerified |-> TRUE,
                              isAdmin |-> FALSE, isSuspended |-> FALSE]},
          pendingUsers |-> {p \in pending : p.email # email},
          currentIds |-> [ids EXCEPT !.user = @ + 1],
          user |-> [id |-> ids.user, email |-> email,
                    password |-> password, isVerified |-> TRUE,
                    isAdmin |-> FALSE, isSuspended |-> FALSE]]

\* completeUserRegistration: error is the message thrown, "" when it returns
completeUserRegistration(us, pending, ids, email, password) ==
    IF getPendingUserByEmail(pending, email) = Undefined
    THEN [error |-> "No pending registration found for this email",
          users |-> us, pendingUsers |-> pending, currentIds |-> ids,
          user |-> Undefined]
    ELSE LET made == createUser(us, ids, email, password, TRUE)
         IN  [error |-> "",
              users |-> made.users,
              pendingUsers |-> MapDelete(pending, "email", email),
              currentIds |-> made.currentIds,
              user |-> made.user]

(***************************************************************************)
(* The snapshot file user.json: getAllUsers and backupUserData.            *)
(***************************************************************************)
\* the user objects as the repository holds them, resetToken included
\* ("" for a user that has none)
StoredUsers(us, rts) ==
    {[id |-> u.id, email |-> u.email, password |-> u.password,
      isVerified |-> u.isVerified, isAdmin |-> u.isAdmin,
      isSuspended |-> u.isSuspended,
      resetToken |-> IF \E r \in rts : r.id = u.id
                     THEN (CHOOSE r \in rts : r.id = u.id).resetToken
                     ELSE ""] : u \in us}

\* const { password, resetToken, resetTokenExpiry, verificationToken,
\* verificationTokenExpiry, ...safeUser } = user
SafeUser(user) ==
    [id |-> user.id, email |-> user.email, isVerified |-> user.isVerified,
     isAdmin |-> user.isAdmin, isSuspended |-> user.isSuspended]

\* what require('fs') may do in a call of getAllUsers: the source does not
\* say whether the module is built as CommonJS (require is defined) or as
\* an ES module (require is not defined); once a call has shown which, it
\* stays so
RequireOutcomes(file) ==
    IF file.require = "unknown" THEN BOOLEAN ELSE {file.require = "defined"}

\* getAllUsers: fs.writeFileSync('user.json', ...) of the users as stored;
\* error is the message thrown
getAllUsers(file, requireDefined, us, rts) ==
    IF ~requireDefined
    THEN [error |-> "require is not defined",
          userJson |-> [file EXCEPT !.require = "undefined"]]
    ELSE [error |-> "",
          userJson |-> [require |-> "defined", written |-> TRUE,
                        users |-> StoredUsers(us, rts)]]

\* backupUserData run to its end: the file it leaves.  An error of
\* getAllUsers is caught and logged
backupUserData(file, requireDefined, us, rts) ==
    LET listed == getAllUsers(file, requireDefined, us, rts)
    IN  IF listed.error # "" THEN listed.userJson
        ELSE [listed.userJson EXCEPT !.users = {SafeUser(u) : u \in us}]

(***************************************************************************)
(* MemStorage: products and the inventory ledger.                          *)
(***************************************************************************)
\* Array.from(map.values()): the values in insertion order, the order of ids
RECURSIVE ValuesInOrder(_)
ValuesInOrder(entries) ==
    IF entries = {} THEN <<>>
    ELSE LET first == CHOOSE e \in entries : \A f \in entries : e.id <= f.id
         IN  <<first>> \o ValuesInOrder(entries \ {first})

\* createProduct: stock and minStock are given or Undefined
createProduct(ps, ids, stock, minStock) ==
    [products |-> MapSet(ps, "id",
                    [id |-> ids.product,
                     stock |-> IF stock = Undefined THEN 0 ELSE stock.value,
                     minStock |-> IF minStock = Undefined THEN DefaultMinStock
                                  ELSE minStock.value]),
     currentIds |-> [ids EXCEPT !.product = @ + 1]]

\* the two sample products of initializeProducts
SeededProducts ==
    LET one == createProduct({}, [product |-> 1],
                             [value |-> 10], [value |-> 5])
    IN  createProduct(one.products, one.currentIds,
                      [value |-> 15], [value |-> 5])

\* a slip of updateProduct: the merged product is not stored
updateProduct_notStored(ps, id, stock) ==
    IF ~\E p \in ps : p.id = id
    THEN [error |-> "Product not found", products |-> ps]
    ELSE [error |-> "", products |-> ps]

\* updateProduct(id, { stock }): error is the message thrown
updateProduct(ps, id, stock) ==
    LET product == MapGet(ps, "id", id)
    IN  IF product = Undefined
        THEN [error |-> "Product not found", products |-> ps]
        ELSE [error |-> "",
              products |-> MapSet(ps, "id", [product EXCEPT !.stock = stock])]

\* a slip of createInventoryLog: the id of the newest entry is used again,
\* so that Map.set replaces the entry
createInventoryLog_reusesId(logs, logId, log) ==
    IF logs = <<>>
    THEN <<[id |-> logId, productId |-> log.productId,
            quantity |-> log.quantity, type |-> log.type]>>
    ELSE [logs EXCEPT ![Len(logs)] =
              [id |-> logs[Len(logs)].id, productId |-> log.productId,
               quantity |-> log.quantity, type |-> log.type]]

\* createInventoryLog: the ledger after the call (note and timestamp are
\* not kept in the model)
createInventoryLog(logs, logId, log) ==
    Append(logs, [id |-> logId, productId |-> log.productId,
                  quantity |-> log.quantity, type |-> log.type])

\* a slip of the clamp: the sum is stored as it is
ClampAtZero_none(n) == n

\* Math.max(0, n)
ClampAtZero(n) == IF n > 0 THEN n ELSE 0

\* quantityChange > 0 ? 'add' : 'remove'
LogType(quantityChange) == IF quantityChange > 0 THEN "add" ELSE "remove"

\* a slip of updateProductStock: the ledger entry is written before the
\* product is looked up
updateProductStock_logsBeforeLookup(ps, logs, logId, productId, quantityChange) ==
    LET entry == [id |-> logId, productId |-> productId,
                  quantity |-> quantityChange,
                  type |-> IF quantityChange > 0 THEN "add" ELSE "remove"]
    IN  IF ~\E p \in ps : p.id = productId
        THEN [error |-> "Product not found", products |-> ps,
              inventoryLogs |-> Append(logs, entry),
              currentInventoryLogId |-> logId + 1]
        ELSE LET product == CHOOSE p \in ps : p.id = productId
                 newStock == IF product.stock + quantityChange > 0
                             THEN product.stock + quantityChange ELSE 0
             IN  [error |-> "",
                  products |-> (ps \ {product})
                                  \cup {[product EXCEPT !.stock = newStock]},
                  inventoryLogs |-> Append(logs, entry),
                  currentInventoryLogId |-> logId + 1]

\* a slip of updateProductStock: the ledger gets the effective change
updateProductStock_logsEffective(ps, logs, logId, productId, quantityChange) ==
    IF ~\E p \in ps : p.id = productId
    THEN [error |-> "Product not found", products |-> ps,
          inventoryLogs |-> logs, currentInventoryLogId |-> logId]
    ELSE LET product == CHOOSE p \in ps : p.id = productId
             newStock == IF product.stock + quantityChange > 0
                         THEN product.stock + quantityChange ELSE 0
         IN  [error |-> "",
              products |-> (ps \ {product})
                              \cup {[product EXCEPT !.stock = newStock]},
              inventoryLogs |->
                  Append(logs, [id |-> logId, productId |-> productId,
                                quantity |-> newStock - product.stock,
                                type |-> IF quantityChange > 0 THEN "add"
                                         ELSE "remove"]),
              currentInventoryLogId |-> logId + 1]

\* updateProductStock: error is the message thrown, "" when it returns
updateProductStock(ps, logs, logId, productId, quantityChange) ==
    LET product == MapGet(ps, "id", productId)
    IN  IF product = Undefined
        THEN [error |-> "Product not found", products |-> ps,
              inventoryLogs |-> logs, currentInventoryLogId |-> logId]
        ELSE LET newStock == ClampAtZero(product.stock + quantityChange)
             IN  [error |-> "",
                  products |-> updateProduct(ps, productId, newStock).products,
                  inventoryLogs |->
                      createInventoryLog(logs, logId,
                          [productId |-> productId,
                           quantity |-> quantityChange,
                           type |-> LogType(quantityChange)]),
                  currentInventoryLogId |-> logId + 1]

\* a number used as a condition: 0 is falsy
Truthy(n) == n # 0

\* the bound a product's stock is compared with in getLowStockProducts:
\* if (threshold) ... threshold, else (product.minStock || 5)
LowStockLimit(threshold, product) ==
    IF threshold # Undefined /\ Truthy(threshold.value)
    THEN threshold.value
    ELSE IF Truthy(product.minStock) THEN product.minStock
         ELSE DefaultMinStock

\* Array.prototype.sort((a, b) => a.stock - b.stock): stable, ascending
RECURSIVE SortByStock(_)
SortByStock(seq) ==
    IF seq = <<>> THEN <<>>
    ELSE LET p == seq[Len(seq)]
             sorted == SortByStock(SubSeq(seq, 1, Len(seq) - 1))
             k == Cardinality({i \in 1..Len(sorted) : sorted[i].stock <= p.stock})
         IN  SubSeq(sorted, 1, k) \o <<p>> \o SubSeq(sorted, k + 1, Len(sorted))

getLowStockProducts(ps, threshold) ==
    LET IsLow(product) == product.stock <= LowStockLimit(threshold, product)
    IN  SortByStock(SelectSeq(ValuesInOrder(ps), IsLow))

(***************************************************************************)
(* MemStorage: user addresses.  isPrimary is a JavaScript value: "true",   *)
(* "false", "null", or "undefined" for a key that is not given.            *)
(***************************************************************************)
\* data.isPrimary || null
OrNull(b) == IF b = "true" THEN "true" ELSE "null"

\* a slip of the primary switch: the other addresses keep their flag
ClearPrimary_none(as, userId, keep) == as

\* addr.isPrimary = false for the addresses of userId other than keep
ClearPrimary(as, userId, keep) ==
    {IF a.userId = userId /\ a.id # keep
     THEN [a EXCEPT !.isPrimary = "false"] ELSE a : a \in as}

createUserAddress(as, ids, userId, isPrimary) ==
    LET cleared == IF isPrimary = "true" THEN ClearPrimary(as, userId, 0)
                   ELSE as
        newAddress == [id |-> ids.address, userId |-> userId,
                       isPrimary |-> OrNull(isPrimary)]
    IN  [addresses |-> MapSet(cleared, "id", newAddress),
         currentIds |-> [ids EXCEPT !.address = @ + 1],
         address |-> newAddress]

\* updateUserAddress(id, userId, { isPrimary }): error is the message thrown
updateUserAddress(as, id, userId, isPrimary) ==
    LET found == {a \in as : a.id = id /\ a.userId = userId}
    IN  IF found = {}
        THEN [error |-> "Address not found or doesn't belong to user",
              addresses |-> as]
        ELSE LET address == CHOOSE a \in found : TRUE
                 cleared == IF isPrimary = "true"
                            THEN ClearPrimary(as, userId, id) ELSE as
                 updatedAddress ==
                     IF isPrimary = "undefined" THEN address
                     ELSE [address EXCEPT !.isPrimary = isPrimary]
             IN  [error |-> "",
                  addresses |-> MapSet(cleared, "id", updatedAddress)]

\* deleteUserAddress: deleted is the value returned
deleteUserAddress(as, id, userId) ==
    IF \E a \in as : a.id = id /\ a.userId = userId
    THEN [deleted |-> TRUE, addresses |-> MapDelete(as, "id", id)]
    ELSE [deleted |-> FALSE, addresses |-> as]

(***************************************************************************)
(* The state after construction: the constructor creates the admin user    *)
(* and the sample products.                                                *)
(***************************************************************************)
Init ==
    /\ users = createUser({}, [user |-> 1], AdminEmail, AdminPassword, TRUE).users
    /\ pendingUsers = {}
    /\ products = SeededProducts.products
    /\ inventoryLogs = <<>>
    /\ currentInventoryLogId = 1
    /\ addresses = {}
    /\ currentIds = [user |-> 2, product |-> 3, address |-> 1]
    /\ session = Undefined
    /\ now = 0
    /\ verified = {}
    /\ inflight = {}
    /\ userJson = NoFile
    /\ resetTokens = {}
    /\ dbUsers = {}
    /\ last = [op |-> "start"]

(***************************************************************************)
(* Time passes between requests.                                           *)
(***************************************************************************)
Tick ==
    \E d \in TickSteps :
        /\ now + d <= MaxPeriods * TokenTTL + MaxSkew
        /\ (now + d) % TokenTTL <= MaxSkew
        /\ now' = now + d
        /\ last' = [op |-> "tick"]
        /\ UNCHANGED <<regVars, invVars, addrVars, currentIds, session, verified, inflight, userJson, resetTokens, dbUsers>>

(***************************************************************************)
(* POST /api/auth/register/init                                            *)
(***************************************************************************)
\* the answer of the handler once the pending record is stored: the call of
\* sendWhatsAppOTP(mobileNumber, ...) names two identifiers the module
\* neither imports nor declares, so it throws a ReferenceError, which the
\* catch clause answers with 500
InitAfterStore == 500

\* sendVerificationEmail(to, code, 'registration'): true when
\* transporter.sendMail resolves, and true from the catch clause when it
\* rejects
sendVerificationEmail(delivered) == IF delivered THEN TRUE ELSE TRUE

RegisterInit ==
    \E email \in EmailInputs, verificationToken \in Tokens :
        LET body == [email |-> email]
            prev == getPendingUserByEmail(pendingUsers, email)
            made == createPendingUser(users, pendingUsers, email,
                                      verificationToken, now + TokenTTL)
            \* prevToken: the code stored for email before the request;
            \* emailSent: the value of sendVerificationEmail when it was
            \* called, whether or not the mail transport took the message
            emailSent == \A delivered \in BOOLEAN :
                             sendVerificationEmail(delivered)
            rejected == [op |-> "init", email |-> email, stored |-> FALSE,
                         token |-> "", status |-> 400,
                         prevToken |-> IF prev = Undefined THEN ""
                                       ELSE prev.verificationToken,
                         emailSent |-> FALSE]
        IN  IF ~registrationInitSchema(body)
            THEN /\ last' = rejected
                 /\ UNCHANGED <<regVars, invVars, addrVars, currentIds, session, now, verified, inflight, userJson, resetTokens, dbUsers>>
            ELSE IF getUserByEmail(users, email) # Undefined
            THEN /\ last' = rejected
                 /\ UNCHANGED <<regVars, invVars, addrVars, currentIds, session, now, verified, inflight, userJson, resetTokens, dbUsers>>
            ELSE IF made.error # ""
            THEN /\ last' = [rejected EXCEPT !.status = 500]
                 /\ UNCHANGED <<regVars, invVars, addrVars, currentIds, session, now, verified, inflight, userJson, resetTokens, dbUsers>>
            ELSE /\ pendingUsers' = made.pendingUsers
                 /\ verified' = verified \ {email}
                 /\ last' = [rejected EXCEPT
                                 !.stored = TRUE,
                                 !.token = verificationToken,
                                 !.emailSent = emailSent,
                                 !.status = InitAfterStore]
                 /\ UNCHANGED <<users, invVars, addrVars, currentIds, session, now, inflight, userJson, resetTokens, dbUsers>>

(***************************************************************************)
(* POST /api/auth/register/verify                                          *)
(***************************************************************************)
\* a slip of the verify handler: a code that was accepted is used up
RegisterVerify_consumesCode ==
    \E email \in EmailInputs, token \in TokenInputs :
        LET accepted == /\ Len(token) >= MinTokenLen
                        /\ \E p \in pendingUsers :
                               /\ p.email = email
                               /\ p.verificationToken = token
                               /\ now <= p.verificationTokenExpiry
        IN  /\ last' = [op |-> "verify", email |-> email, token |-> token,
                        status |-> IF accepted THEN 200 ELSE 400,
                        isValid |-> accepted,
                        wasVerified |-> email \in verified]
            /\ pendingUsers' = IF accepted
                               THEN {p \in pendingUsers : p.email # email}
                               ELSE pendingUsers
            /\ verified' = IF accepted THEN verified \cup {email} ELSE verified
            /\ UNCHANGED <<users, invVars, addrVars, currentIds, session, now, inflight, userJson, resetTokens, dbUsers>>

RegisterVerify ==
    \E email \in EmailInputs, token \in TokenInputs :
        LET body == [email |-> email, token |-> token]
            isValid == verifyEmailToken(pendingUsers, now, email, token)
            accepted == verifyEmailSchema(body) /\ isValid
        IN  /\ last' = [op |-> "verify", email |-> email, token |-> token,
                        status |-> IF ~verifyEmailSchema(body) THEN 400
                                   ELSE IF ~isValid THEN 400 ELSE 200,
                        isValid |-> accepted,
                        wasVerified |-> email \in verified]
            /\ verified' = IF accepted THEN verified \cup {email} ELSE verified
            /\ UNCHANGED <<regVars, invVars, addrVars, currentIds, session, now, inflight, userJson, resetTokens, dbUsers>>

(***************************************************************************)
(* POST /api/auth/register/complete                                        *)
(***************************************************************************)
RegisterComplete ==
    \E email \in EmailInputs, password \in PasswordInputs :
      \E confirmPassword \in ConfirmInputs(password) :
        LET body == [email |-> email, password |-> password,
                     confirmPassword |-> confirmPassword]
            done == completeUserRegistration(users, pendingUsers, currentIds,
                                             email, password)
            \* observed before the call, for the record in last
            hadPending == \E p \in pendingUsers : p.email = email
            expired == \E p \in pendingUsers :
                           /\ p.email = email
                           /\ Expired(now, p.verificationTokenExpiry)
        IN  IF ~completeRegistrationSchema(body)
            THEN /\ last' = [op |-> "complete", email |-> email,
                             password |-> password, status |-> 400,
                             error |-> "Invalid form data", userId |-> 0,
                             hadPending |-> hadPending,
                             expired |-> expired,
                             wasVerified |-> email \in verified,
                             valid |-> completeRegistrationSchema(body)]
                 /\ UNCHANGED <<regVars, invVars, addrVars, currentIds, session, now, verified, inflight, userJson, resetTokens, dbUsers>>
            ELSE IF done.error # ""
            THEN /\ last' = [op |-> "complete", email |-> email,
                             password |-> password, status |-> 400,
                             error |-> done.error, userId |-> 0,
                             hadPending |-> hadPending,
                             expired |-> expired,
                             wasVerified |-> email \in verified,
                             valid |-> completeRegistrationSchema(body)]
                 /\ UNCHANGED <<regVars, invVars, addrVars, currentIds, session, now, verified, inflight, userJson, resetTokens, dbUsers>>
            ELSE /\ users' = done.users
                 /\ pendingUsers' = done.pendingUsers
                 /\ currentIds' = done.currentIds
                 /\ session' = [id |-> done.user.id, email |-> done.user.email]
                 /\ last' = [op |-> "complete", email |-> email,
                             password |-> password, status |-> 200,
                             error |-> "", userId |-> done.user.id,
                             hadPending |-> hadPending,
                             expired |-> expired,
                             wasVerified |-> email \in verified,
                             valid |-> completeRegistrationSchema(body)]
                 /\ verified' = verified \ {email}
                 \* createUser is wrapped: backupUserData runs after it
                 /\ \E requireDefined \in RequireOutcomes(userJson) :
                        userJson' = backupUserData(userJson, requireDefined,
                                                   done.users, resetTokens)
                 /\ UNCHANGED <<invVars, addrVars, now, inflight, resetTokens, dbUsers>>

RegNext == Tick \/ RegisterInit \/ RegisterVerify \/ RegisterComplete

RegSpec == Init /\ [][RegNext]_vars

(***************************************************************************)
(* POST /api/auth/login                                                    *)
(***************************************************************************)
\* a slip of the login handler: isSuspended is not looked at
Login_ignoresSuspension ==
    \E email \in LoginEmails, password \in LoginPasswords :
        LET found == {u \in users : u.email = email /\ u.password = password}
        IN  IF found = {}
            THEN /\ last' = [op |-> "login", email |-> email,
                             password |-> password,
                             status |-> IF email = "not-an-email" THEN 400
                                        ELSE 401]
                 /\ UNCHANGED <<regVars, invVars, addrVars, currentIds, session, now, verified, inflight, userJson, resetTokens, dbUsers>>
            ELSE /\ session' = [id |-> (CHOOSE u \in found : TRUE).id,
                                email |-> email]
                 /\ last' = [op |-> "login", email |-> email,
                             password |-> password, status |-> 200]
                 /\ UNCHANGED <<regVars, invVars, addrVars, currentIds, now, verified, inflight, userJson, resetTokens, dbUsers>>

Login ==
    \E email \in LoginEmails, password \in LoginPasswords :
        LET user == getUserByEmail(users, email)
        IN  IF ~IsEmail(email)
            THEN /\ last' = [op |-> "login", email |-> email,
                             password |-> password, status |-> 400]
                 /\ UNCHANGED <<regVars, invVars, addrVars, currentIds, session, now, verified, inflight, userJson, resetTokens, dbUsers>>
            ELSE IF user = Undefined \/ user.password # password
            THEN /\ last' = [op |-> "login", email |-> email,
                             password |-> password, status |-> 401]
                 /\ UNCHANGED <<regVars, invVars, addrVars, currentIds, session, now, verified, inflight, userJson, resetTokens, dbUsers>>
            ELSE IF user.isSuspended
            THEN /\ last' = [op |-> "login", email |-> email,
                             password |-> password, status |-> 403]
                 /\ UNCHANGED <<regVars, invVars, addrVars, currentIds, session, now, verified, inflight, userJson, resetTokens, dbUsers>>
            ELSE /\ session' = [id |-> user.id, email |-> user.email]
                 /\ last' = [op |-> "login", email |-> email,
                             password |-> password, status |-> 200]
                 /\ UNCHANGED <<regVars, invVars, addrVars, currentIds, now, verified, inflight, userJson, resetTokens, dbUsers>>

(***************************************************************************)
(* The inventory routes (server/routes/inventory.ts).                      *)
(***************************************************************************)
\* isAuthenticated: req.session && req.session.user
isAuthenticated == session # Undefined

\* Number(s) for the query strings of ThresholdQueries
ToNumber(s) == CASE s = "0" -> 0 [] s = "5" -> 5 [] s = "12" -> 12

\* PUT /api/inventory/stock/:productId
UpdateStock ==
    \E productId \in ProductIdInputs, quantity \in QuantityInputs :
        LET before == MapGet(products, "id", productId)
            \* stockBefore, logsBefore: the store before the request
            request == [op |-> "stock", productId |-> productId,
                        quantity |-> quantity, status |-> 200, error |-> "",
                        stockBefore |-> IF before = Undefined THEN -1
                                        ELSE before.stock,
                        logsBefore |-> Len(inventoryLogs)]
            done == updateProductStock(products, inventoryLogs,
                                       currentInventoryLogId, productId,
                                       quantity.value)
        IN  IF ~isAuthenticated
            THEN /\ last' = [request EXCEPT !.status = 401]
                 /\ UNCHANGED <<regVars, invVars, addrVars, currentIds, session, now, verified, inflight, userJson, resetTokens, dbUsers>>
            ELSE IF quantity = NotANumber
            THEN /\ last' = [request EXCEPT
                                 !.status = 400,
                                 !.error = "Quantity must be a number"]
                 /\ UNCHANGED <<regVars, invVars, addrVars, currentIds, session, now, verified, inflight, userJson, resetTokens, dbUsers>>
            ELSE IF done.error # ""
            THEN \* the store is left as it was when the error was thrown
                 /\ Len(done.inventoryLogs) <= MaxLogs
                 /\ products' = done.products
                 /\ inventoryLogs' = done.inventoryLogs
                 /\ currentInventoryLogId' = done.currentInventoryLogId
                 /\ last' = [request EXCEPT !.status = 500,
                                            !.error = done.error]
                 /\ UNCHANGED <<regVars, addrVars, currentIds, session, now, verified, inflight, userJson, resetTokens, dbUsers>>
            ELSE /\ Len(inventoryLogs) < MaxLogs
                 /\ products' = done.products
                 /\ inventoryLogs' = done.inventoryLogs
                 /\ currentInventoryLogId' = done.currentInventoryLogId
                 /\ last' = request
                 /\ UNCHANGED <<regVars, addrVars, currentIds, session, now, verified, inflight, userJson, resetTokens, dbUsers>>

\* POST /api/inventory/logs
InsertLog ==
    \E productId \in SeededIds, quantity \in LogQuantityInputs,
       type \in LogTypeInputs :
        IF ~isAuthenticated
        THEN /\ last' = [op |-> "log", status |-> 401]
             /\ UNCHANGED <<regVars, invVars, addrVars, currentIds, session, now, verified, inflight, userJson, resetTokens, dbUsers>>
        ELSE /\ Len(inventoryLogs) < MaxLogs
             /\ inventoryLogs' =
                    createInventoryLog(inventoryLogs, currentInventoryLogId,
                        [productId |-> productId, quantity |-> quantity,
                         type |-> type])
             /\ currentInventoryLogId' = currentInventoryLogId + 1
             /\ last' = [op |-> "log", status |-> 201]
             /\ UNCHANGED <<regVars, products, addrVars, currentIds, session, now, verified, inflight, userJson, resetTokens, dbUsers>>

\* GET /api/inventory/low-stock?threshold=
LowStock ==
    \E query \in ThresholdQueries :
        LET threshold == IF query # "" THEN [value |-> ToNumber(query)]
                         ELSE Undefined
        IN  /\ last' = IF ~isAuthenticated
                       THEN [op |-> "low-stock", status |-> 401]
                       ELSE [op |-> "low-stock", status |-> 200,
                             threshold |-> threshold,
                             products |-> getLowStockProducts(products, threshold)]
            /\ UNCHANGED <<regVars, invVars, addrVars, currentIds, session, now, verified, inflight, userJson, resetTokens, dbUsers>>

InvNext == Login \/ UpdateStock \/ InsertLog \/ LowStock

InvSpec == Init /\ [][InvNext]_vars

\* the runs in which the ledger is written by stock adjustments only
StockNext == Login \/ UpdateStock

StockSpec == Init /\ [][StockNext]_vars

(***************************************************************************)
(* DatabaseStorage.updateProductStock (server/database-storage.ts): three  *)
(* statements sent to the database one after the other, each awaited, with *)
(* no transaction around them.  Calls made for different requests overlap: *)
(* inflight holds the calls that have begun, each with the statement it    *)
(* sends next.  The product table holds the two sample products.           *)
(***************************************************************************)
\* the number the next call is known by in inflight
FreeRid == CHOOSE r \in 1..MaxInflight : \A c \in inflight : c.rid # r

\* SELECT the product; throw when there is none; compute newStock
DbSelectProduct ==
    \E productId \in ProductIdInputs, quantityChange \in DbQuantityInputs :
        LET product == MapGet(products, "id", productId)
        IN  /\ Cardinality(inflight) < MaxInflight
            /\ Len(inventoryLogs) + Cardinality(inflight) < MaxLogs
            /\ IF product = Undefined
               THEN /\ inflight' = inflight
                    /\ last' = [op |-> "db-stock", productId |-> productId,
                                quantity |-> quantityChange,
                                error |-> "Product not found"]
               ELSE /\ inflight' = inflight \cup
                           {[rid |-> FreeRid, productId |-> productId,
                             quantityChange |-> quantityChange,
                             oldStock |-> product.stock,
                             newStock |-> ClampAtZero(product.stock
                                                        + quantityChange),
                             pc |-> "update"]}
                    /\ last' = [op |-> "db-select", productId |-> productId,
                                quantity |-> quantityChange, error |-> ""]
            /\ UNCHANGED <<regVars, invVars, addrVars, currentIds, session, now, verified, userJson, resetTokens, dbUsers>>

\* UPDATE products SET stock = newStock WHERE id = productId
DbUpdateStock ==
    \E c \in inflight :
        /\ c.pc = "update"
        /\ products' = updateProduct(products, c.productId, c.newStock).products
        /\ inflight' = (inflight \ {c}) \cup {[c EXCEPT !.pc = "log"]}
        /\ last' = [op |-> "db-update", productId |-> c.productId,
                    quantity |-> c.quantityChange, error |-> ""]
        /\ UNCHANGED <<regVars, inventoryLogs, currentInventoryLogId, addrVars, currentIds, session, now, verified, userJson, resetTokens, dbUsers>>

\* this.createInventoryLog(...): INSERT INTO inventory_logs; the call returns
DbInsertLog ==
    \E c \in inflight :
        /\ c.pc = "log"
        /\ inventoryLogs' =
               createInventoryLog(inventoryLogs, currentInventoryLogId,
                   [productId |-> c.productId, quantity |-> c.quantityChange,
                    type |-> LogType(c.quantityChange)])
        /\ currentInventoryLogId' = currentInventoryLogId + 1
        /\ inflight' = inflight \ {c}
        /\ last' = [op |-> "db-stock", productId |-> c.productId,
                    quantity |-> c.quantityChange, error |-> ""]
        /\ UNCHANGED <<regVars, products, addrVars, currentIds, session, now, verified, userJson, resetTokens, dbUsers>>

\* another request reads the products and the ledger (getProducts,
\* getInventoryLogs).  unlogged: the calls whose UPDATE changed a stock and
\* whose ledger entry is not yet inserted
DbReadInventory ==
    /\ last' = [op |-> "db-read", products |-> products,
                logs |-> inventoryLogs,
                unlogged |-> {c.rid : c \in {d \in inflight :
                                                 /\ d.pc = "log"
                                                 /\ d.newStock # d.oldStock}}]
    /\ UNCHANGED <<regVars, invVars, addrVars, currentIds, session, now, verified, inflight, userJson, resetTokens, dbUsers>>

DbInvNext == DbSelectProduct \/ DbUpdateStock \/ DbInsertLog \/ DbReadInventory

DbInvSpec == Init /\ [][DbInvNext]_vars

(***************************************************************************)
(* Sessions: logout and the suspension of users by the administrator.      *)
(***************************************************************************)
\* POST /api/auth/logout: req.session.destroy
Logout ==
    /\ session' = Undefined
    /\ last' = [op |-> "logout", status |-> 200]
    /\ UNCHANGED <<regVars, invVars, addrVars, currentIds, now, verified, inflight, userJson, resetTokens, dbUsers>>

\* updateUser(id, { isSuspended }): error is the message thrown
updateUser(us, id, isSuspended) ==
    LET user == MapGet(us, "id", id)
    IN  IF user = Undefined
        THEN [error |-> "User not found", users |-> us]
        ELSE [error |-> "",
              users |-> MapSet(us, "id",
                               [user EXCEPT !.isSuspended = isSuspended])]

toggleUserSuspension(us, id) ==
    LET user == MapGet(us, "id", id)
    IN  IF user = Undefined
        THEN [error |-> "User not found", users |-> us]
        ELSE updateUser(us, id, ~user.isSuspended)

\* the isAdmin middleware: 0 when the request may pass, else the status it
\* answers.  The session holds id and email only, so user.isAdmin is
\* undefined there
isAdmin ==
    IF session = Undefined THEN 401
    ELSE IF session.email # AdminEmail THEN 403
    ELSE 0

\* POST /api/admin/users/:id/toggle-suspension
ToggleSuspension ==
    \E id \in UserIdInputs :
        LET done == toggleUserSuspension(users, id)
        IN  IF isAdmin # 0
            THEN /\ last' = [op |-> "toggle-suspension", id |-> id,
                             status |-> isAdmin]
                 /\ UNCHANGED <<regVars, invVars, addrVars, currentIds, session, now, verified, inflight, userJson, resetTokens, dbUsers>>
            ELSE /\ users' = done.users
                 /\ last' = [op |-> "toggle-suspension", id |-> id,
                             status |-> IF done.error # "" THEN 500 ELSE 200]
                 \* toggleUserSuspension is wrapped: backupUserData runs
                 \* after it when it has not thrown
                 /\ \E requireDefined \in RequireOutcomes(userJson) :
                        userJson' = IF done.error # "" THEN userJson
                                    ELSE backupUserData(userJson, requireDefined,
                                                        done.users, resetTokens)
                 /\ UNCHANGED <<pendingUsers, invVars, addrVars, currentIds, session, now, verified, inflight, resetTokens, dbUsers>>

\* toggleUserAdmin: this.updateUser(id, { isAdmin: !user.isAdmin })
toggleUserAdmin(us, id) ==
    LET user == MapGet(us, "id", id)
    IN  IF user = Undefined
        THEN [error |-> "User not found", users |-> us]
        ELSE [error |-> "",
              users |-> MapSet(us, "id",
                               [user EXCEPT !.isAdmin = ~user.isAdmin])]

\* POST /api/admin/users/:id/toggle-admin
ToggleAdmin ==
    \E id \in UserIdInputs :
        LET done == toggleUserAdmin(users, id)
        IN  IF isAdmin # 0
            THEN /\ last' = [op |-> "toggle-admin", id |-> id,
                             status |-> isAdmin]
                 /\ UNCHANGED <<regVars, invVars, addrVars, currentIds, session, now, verified, inflight, userJson, resetTokens, dbUsers>>
            ELSE /\ users' = done.users
                 /\ last' = [op |-> "toggle-admin", id |-> id,
                             status |-> IF done.error # "" THEN 500 ELSE 200]
                 \* toggleUserAdmin is wrapped: backupUserData runs after
                 \* it when it has not thrown
                 /\ \E requireDefined \in RequireOutcomes(userJson) :
                        userJson' = IF done.error # "" THEN userJson
                                    ELSE backupUserData(userJson, requireDefined,
                                                        done.users, resetTokens)
                 /\ UNCHANGED <<pendingUsers, invVars, addrVars, currentIds, session, now, verified, inflight, resetTokens, dbUsers>>

\* GET /api/admin/users: storage.getAllUsers(), answered without the
\* passwords; 500 when getAllUsers throws
ListUsers ==
    IF isAdmin # 0
    THEN /\ last' = [op |-> "list-users", id |-> 0, status |-> isAdmin]
         /\ UNCHANGED <<regVars, invVars, addrVars, currentIds, session, now, verified, inflight, userJson, resetTokens, dbUsers>>
    ELSE \E requireDefined \in RequireOutcomes(userJson) :
             LET listed == getAllUsers(userJson, requireDefined, users,
                                       resetTokens)
             IN  /\ userJson' = listed.userJson
                 /\ last' = [op |-> "list-users", id |-> 0,
                             status |-> IF listed.error # "" THEN 500
                                        ELSE 200]
                 /\ UNCHANGED <<regVars, invVars, addrVars, currentIds, session, now, verified, inflight, resetTokens, dbUsers>>

\* setInterval(..., 5 * 60 * 1000): the periodic backupUserData
PeriodicBackup ==
    \E requireDefined \in RequireOutcomes(userJson) :
        /\ userJson' = backupUserData(userJson, requireDefined, users,
                                      resetTokens)
        /\ last' = [op |-> "periodic-backup"]
        /\ UNCHANGED <<regVars, invVars, addrVars, currentIds, session, now, verified, inflight, resetTokens, dbUsers>>

AuthNext ==
    \/ Login \/ Logout \/ ToggleSuspension \/ ToggleAdmin \/ ListUsers
    \/ PeriodicBackup \/ RegisterInit \/ RegisterComplete

AuthSpec == Init /\ [][AuthNext]_vars

(***************************************************************************)
(* POST /api/auth/register/complete, overlapping.  completeUserRegistration *)
(* awaits this.createUser, which is wrapped: after the user is stored it    *)
(* awaits backupUserData, and there, when require is defined, fs.writeFile  *)
(* -- file I/O, during which the handlers of other requests run.  The       *)
(* pending record is deleted only after that.  When require is not defined  *)
(* backupUserData returns without I/O and the handler runs to its end in    *)
(* one piece, which is RegisterComplete.                                    *)
(***************************************************************************)
\* the handler up to the await of fs.writeFile, for a body that passes the
\* schema
CompleteBegin ==
    \E email \in NewEmails, password \in {"secret1"} :
        LET body == [email |-> email, password |-> password,
                     confirmPassword |-> password]
            made == createUser(users, currentIds, email, password, TRUE)
        IN  /\ TRUE \in RequireOutcomes(userJson)
            /\ Cardinality(inflight) < MaxInflight
            /\ completeRegistrationSchema(body)
            /\ getPendingUserByEmail(pendingUsers, email) # Undefined
            /\ users' = made.users
            /\ currentIds' = made.currentIds
            /\ userJson' = getAllUsers(userJson, TRUE, made.users,
                                       resetTokens).userJson
            /\ inflight' = inflight \cup
                   {[rid |-> FreeRid, pc |-> "writeFile", email |-> email,
                     user |-> made.user,
                     safeUsers |-> {SafeUser(u) : u \in made.users}]}
            /\ last' = [op |-> "complete-begin", email |-> email,
                        userId |-> made.user.id]
            /\ UNCHANGED <<pendingUsers, invVars, addrVars, session, now, verified, resetTokens, dbUsers>>

\* the handler from there: the file is written, the pending record is
\* deleted, the session is set, the request is answered
CompleteEnd ==
    \E c \in inflight :
        /\ c.pc = "writeFile"
        /\ userJson' = [userJson EXCEPT !.users = c.safeUsers]
        /\ pendingUsers' = MapDelete(pendingUsers, "email", c.email)
        /\ verified' = verified \ {c.email}
        /\ session' = [id |-> c.user.id, email |-> c.user.email]
        /\ inflight' = inflight \ {c}
        /\ last' = [op |-> "complete-end", email |-> c.email,
                    userId |-> c.user.id, status |-> 200]
        /\ UNCHANGED <<users, invVars, addrVars, currentIds, now, resetTokens, dbUsers>>

OverlapNext ==
    RegisterInit \/ RegisterComplete \/ CompleteBegin \/ CompleteEnd

OverlapSpec == Init /\ [][OverlapNext]_vars

(***************************************************************************)
(* The address operations of the repository.                               *)
(***************************************************************************)
\* whether userId has a primary address other than id, before the call
HasOtherPrimary(userId, id) ==
    \E a \in addresses : a.userId = userId /\ a.id # id /\ a.isPrimary = "true"

CreateUserAddress ==
    \E userId \in UserIds, isPrimary \in IsPrimaryInputs :
        LET made == createUserAddress(addresses, currentIds, userId, isPrimary)
        IN  /\ currentIds.address <= MaxAddresses
            /\ addresses' = made.addresses
            /\ currentIds' = made.currentIds
            /\ last' = [op |-> "createUserAddress", id |-> made.address.id,
                        userId |-> userId, isPrimary |-> isPrimary,
                        error |-> "",
                        hadPrimary |-> HasOtherPrimary(userId, made.address.id)]
            \* createUserAddress is wrapped: backupUserData runs after it
            /\ \E requireDefined \in RequireOutcomes(userJson) :
                   userJson' = backupUserData(userJson, requireDefined,
                                              users, resetTokens)
            /\ UNCHANGED <<regVars, invVars, session, now, verified, inflight, resetTokens, dbUsers>>

UpdateUserAddress ==
    \E id \in 1..MaxAddresses, userId \in UserIds,
       isPrimary \in IsPrimaryInputs :
        LET done == updateUserAddress(addresses, id, userId, isPrimary)
        IN  /\ addresses' = done.addresses
            /\ last' = [op |-> "updateUserAddress", id |-> id,
                        userId |-> userId, isPrimary |-> isPrimary,
                        error |-> done.error,
                        hadPrimary |-> HasOtherPrimary(userId, id)]
            \* updateUserAddress is wrapped: backupUserData runs after it
            \* when it has not thrown
            /\ \E requireDefined \in RequireOutcomes(userJson) :
                   userJson' = IF done.error # "" THEN userJson
                               ELSE backupUserData(userJson, requireDefined,
                                                   users, resetTokens)
            /\ UNCHANGED <<regVars, invVars, currentIds, session, now, verified, inflight, resetTokens, dbUsers>>

DeleteUserAddress ==
    \E id \in 1..MaxAddresses, userId \in UserIds :
        LET done == deleteUserAddress(addresses, id, userId)
        IN  /\ addresses' = done.addresses
            /\ last' = [op |-> "deleteUserAddress", id |-> id,
                        userId |-> userId, deleted |-> done.deleted]
            \* deleteUserAddress is wrapped: backupUserData runs after it
            /\ \E requireDefined \in RequireOutcomes(userJson) :
                   userJson' = backupUserData(userJson, requireDefined,
                                              users, resetTokens)
            /\ UNCHANGED <<regVars, invVars, currentIds, session, now, verified, inflight, resetTokens, dbUsers>>

AddrNext == CreateUserAddress \/ UpdateUserAddress \/ DeleteUserAddress

AddrSpec == Init /\ [][AddrNext]_vars

(***************************************************************************)
(* DatabaseStorage: user addresses (server/database-storage.ts).  With     *)
(* isPrimary true a call sends two statements, each awaited, with no       *)
(* transaction around them: UPDATE ... SET is_primary = false WHERE        *)
(* user_id = userId, then the INSERT or the UPDATE of the address.  Calls  *)
(* made for different requests overlap between the two.  addresses holds   *)
(* the rows of user_addresses, currentIds.address the serial of id.        *)
(***************************************************************************)
\* the value stored in is_primary: the column default for a key not given
DbIsPrimary(b) == IF b = "undefined" THEN "false" ELSE b

\* first statement of createUserAddress / updateUserAddress when isPrimary
\* is true.  lostPrimary: whether the statement took the flag from a row
DbClearPrimary ==
    \E op \in {"create", "update"}, id \in DbAddressIdInputs,
       userId \in UserIds :
        LET cleared == ClearPrimary(addresses, userId, 0)
        IN  /\ Cardinality(inflight) < MaxInflight
            /\ op = "create" =>
                   /\ id = 1
                   /\ currentIds.address
                        + Cardinality({c \in inflight : c.op = "create"})
                      <= MaxDbAddresses
            /\ addresses' = cleared
            /\ inflight' = inflight \cup
                   {[rid |-> FreeRid, op |-> op, id |-> id, userId |-> userId,
                     isPrimary |-> "true", pc |-> "write",
                     lostPrimary |->
                         \E a \in addresses : /\ a.userId = userId
                                              /\ a.isPrimary = "true"]}
            /\ last' = [op |-> "db-clearPrimary", userId |-> userId]
            /\ UNCHANGED <<regVars, invVars, currentIds, session, now, verified, userJson, resetTokens, dbUsers>>

\* INSERT INTO user_addresses: the second statement of a createUserAddress
\* with isPrimary true, or the only one of a call with another isPrimary
DbInsertAddress ==
    \E c \in {d \in inflight : d.op = "create"} \cup
              {[rid |-> 0, op |-> "create", id |-> 1, userId |-> userId,
                isPrimary |-> isPrimary, pc |-> "write",
                lostPrimary |-> FALSE] :
                   userId \in UserIds, isPrimary \in DbIsPrimaryInputs} :
        LET row == [id |-> currentIds.address, userId |-> c.userId,
                    isPrimary |-> DbIsPrimary(c.isPrimary)]
        IN  /\ c.rid = 0 =>
                   currentIds.address
                     + Cardinality({d \in inflight : d.op = "create"})
                   <= MaxDbAddresses
            /\ addresses' = addresses \cup {row}
            /\ currentIds' = [currentIds EXCEPT !.address = @ + 1]
            /\ inflight' = inflight \ {c}
            /\ last' = [op |-> "db-createUserAddress", id |-> row.id,
                        userId |-> c.userId, isPrimary |-> c.isPrimary,
                        error |-> ""]
            /\ UNCHANGED <<regVars, invVars, session, now, verified, userJson, resetTokens, dbUsers>>

\* UPDATE user_addresses SET ... WHERE id = id AND user_id = userId
\* RETURNING: the second statement of an updateUserAddress with isPrimary
\* true, or the only one of a call with another isPrimary.  The call throws
\* when no row is returned.  lostPrimary: whether the call took the flag
\* from a row and gave it to none
DbUpdateAddress ==
    \E c \in {d \in inflight : d.op = "update"} \cup
              {[rid |-> 0, op |-> "update", id |-> id, userId |-> userId,
                isPrimary |-> isPrimary, pc |-> "write",
                lostPrimary |-> FALSE] :
                   id \in DbAddressIdInputs, userId \in UserIds,
                   isPrimary \in DbIsPrimaryInputs} :
        LET found == {a \in addresses : a.id = c.id /\ a.userId = c.userId}
            updated == {IF a \in found /\ c.isPrimary # "undefined"
                        THEN [a EXCEPT !.isPrimary = c.isPrimary] ELSE a :
                            a \in addresses}
        IN  /\ addresses' = updated
            /\ inflight' = inflight \ {c}
            /\ last' = [op |-> "db-updateUserAddress", id |-> c.id,
                        userId |-> c.userId, isPrimary |-> c.isPrimary,
                        error |-> IF found = {}
                                  THEN "Address not found or doesn't belong to user"
                                  ELSE "",
                        lostPrimary |-> c.lostPrimary /\ found = {}]
            /\ UNCHANGED <<regVars, invVars, currentIds, session, now, verified, userJson, resetTokens, dbUsers>>

DbAddrNext == DbClearPrimary \/ DbInsertAddress \/ DbUpdateAddress

DbAddrSpec == Init /\ [][DbAddrNext]_vars

(***************************************************************************)
(* DatabaseStorage: users and pending registrations                        *)
(* (server/database-storage.ts).  dbUsers holds the rows of the table      *)
(* users; nothing seeds it.  A pending registration is a row of that table *)
(* with the placeholder password.  null is "" for a code and -1 for a      *)
(* time.                                                                   *)
(***************************************************************************)
PendingPassword == "PENDING_REGISTRATION"

\* SELECT ... FROM users WHERE email = email: the rows; the caller takes
\* the first one returned, and no ORDER BY says which one that is
dbSelectByEmail(rows, email) == {r \in rows : r.email = email}

\* const [row] = await db.select()...: what row may be
FirstRow(rows) == IF rows = {} THEN {Undefined} ELSE rows

\* DatabaseStorage.getUserByEmail: the values it may return
dbGetUserByEmail(rows, email) == FirstRow(dbSelectByEmail(rows, email))

\* DatabaseStorage.getPendingUserByEmail: the values it may return
dbGetPendingUserByEmail(rows, email) ==
    FirstRow({r \in dbSelectByEmail(rows, email) :
                  r.password = PendingPassword})

\* DatabaseStorage.createPendingUser, existingUser being what
\* getUserByEmail returned; id is the serial of the table
dbCreatePendingUser(rows, existingUser, email, verificationToken, tokenExpiry) ==
    IF existingUser # Undefined
    THEN [error |-> "User with this email already exists", dbUsers |-> rows]
    ELSE [error |-> "",
          dbUsers |-> rows \cup
              {[id |-> Cardinality(rows) + 1, email |-> email,
                password |-> PendingPassword,
                verificationToken |-> verificationToken,
                verificationTokenExpiry |-> tokenExpiry,
                isVerified |-> FALSE, isAdmin |-> FALSE,
                isSuspended |-> FALSE]}]

\* DatabaseStorage.verifyEmailToken, pendingUser being what
\* getPendingUserByEmail returned
dbVerifyEmailToken(pendingUser, t, token) ==
    IF \/ pendingUser = Undefined
       \/ pendingUser.verificationToken = ""
       \/ pendingUser.verificationTokenExpiry = -1
    THEN FALSE
    ELSE IF pendingUser.verificationToken # token
    THEN FALSE
    ELSE IF Expired(t, pendingUser.verificationTokenExpiry)
    THEN FALSE
    ELSE TRUE

\* DatabaseStorage.completeUserRegistration, pendingUser being what
\* getPendingUserByEmail returned: UPDATE users SET ... WHERE email = email
dbCompleteUserRegistration(rows, pendingUser, email, password) ==
    IF pendingUser = Undefined
    THEN [error |-> "No pending registration found for this email",
          dbUsers |-> rows]
    ELSE [error |-> "",
          dbUsers |-> {IF r.email = email
                       THEN [r EXCEPT !.password = password,
                                      !.isVerified = TRUE,
                                      !.verificationToken = "",
                                      !.verificationTokenExpiry = -1]
                       ELSE r : r \in rows}]

(***************************************************************************)
(* The two implementations of IStorage side by side: each step makes the   *)
(* same call on MemStorage (users, pendingUsers) and on DatabaseStorage    *)
(* (dbUsers) and records in last what each returned or threw.              *)
(***************************************************************************)
\* what a caller sees of a user object, Undefined for no user
UserView(user) ==
    IF user = Undefined THEN Undefined
    ELSE [email |-> user.email, password |-> user.password,
          isVerified |-> user.isVerified]

BothCreatePendingUser ==
    \E email \in NewEmails, token \in Tokens :
    \E existingUser \in dbGetUserByEmail(dbUsers, email) :
        LET mem == createPendingUser(users, pendingUsers, email, token,
                                     now + TokenTTL)
            db == dbCreatePendingUser(dbUsers, existingUser, email, token,
                                      now + TokenTTL)
        IN  /\ pendingUsers' = mem.pendingUsers
            /\ dbUsers' = db.dbUsers
            /\ last' = [op |-> "createPendingUser", email |-> email,
                        mem |-> mem.error, db |-> db.error,
                        wasPending |->
                            getPendingUserByEmail(pendingUsers, email)
                              # Undefined]
            /\ UNCHANGED <<users, invVars, addrVars, currentIds, session, now, verified, inflight, userJson, resetTokens>>

BothVerifyEmailToken ==
    \E email \in NewEmails, token \in Tokens :
    \E pendingUser \in dbGetPendingUserByEmail(dbUsers, email) :
        /\ last' = [op |-> "verifyEmailToken", email |-> email,
                    mem |-> verifyEmailToken(pendingUsers, now, email, token),
                    db |-> dbVerifyEmailToken(pendingUser, now, token)]
        /\ UNCHANGED <<regVars, invVars, addrVars, currentIds, session, now, verified, inflight, userJson, resetTokens, dbUsers>>

BothCompleteUserRegistration ==
    \E email \in NewEmails, password \in {"secret1"} :
    \E pendingUser \in dbGetPendingUserByEmail(dbUsers, email) :
        LET mem == completeUserRegistration(users, pendingUsers, currentIds,
                                            email, password)
            db == dbCompleteUserRegistration(dbUsers, pendingUser, email,
                                             password)
        IN  /\ users' = mem.users
            /\ pendingUsers' = mem.pendingUsers
            /\ currentIds' = mem.currentIds
            /\ dbUsers' = db.dbUsers
            \* MemStorage.createUser is wrapped: backupUserData runs after it
            /\ \E requireDefined \in RequireOutcomes(userJson) :
                   userJson' = IF mem.error # "" THEN userJson
                               ELSE backupUserData(userJson, requireDefined,
                                                   mem.users, resetTokens)
            /\ last' = [op |-> "completeUserRegistration", email |-> email,
                        mem |-> mem.error, db |-> db.error]
            /\ UNCHANGED <<invVars, addrVars, session, now, verified, inflight, resetTokens>>

BothGetUserByEmail ==
    \E email \in NewEmails :
    \E user \in dbGetUserByEmail(dbUsers, email) :
        /\ last' = [op |-> "getUserByEmail", email |-> email,
                    mem |-> UserView(getUserByEmail(users, email)),
                    db |-> UserView(user),
                    isPending |-> getPendingUserByEmail(pendingUsers, email)
                                    # Undefined]
        /\ UNCHANGED <<regVars, invVars, addrVars, currentIds, session, now, verified, inflight, userJson, resetTokens, dbUsers>>

\* passwords a client may send to the login route over DatabaseStorage
DbLoginPasswords == {"secret1", PendingPassword}

\* POST /api/auth/login with storage = new DatabaseStorage()
DbLogin ==
    \E email \in LoginEmails, password \in DbLoginPasswords :
    \E user \in dbGetUserByEmail(dbUsers, email) :
        LET request == [op |-> "db-login", email |-> email,
                        password |-> password, status |-> 200,
                        wasPending |->
                            dbGetPendingUserByEmail(dbUsers, email)
                              # {Undefined}]
        IN  /\ IF ~IsEmail(email)
               THEN /\ last' = [request EXCEPT !.status = 400]
                    /\ UNCHANGED session
               ELSE IF user = Undefined \/ user.password # password
               THEN /\ last' = [request EXCEPT !.status = 401]
                    /\ UNCHANGED session
               ELSE IF user.isSuspended
               THEN /\ last' = [request EXCEPT !.status = 403]
                    /\ UNCHANGED session
               ELSE /\ session' = [id |-> user.id, email |-> user.email]
                    /\ last' = request
            /\ UNCHANGED <<regVars, invVars, addrVars, currentIds, now, verified, inflight, userJson, resetTokens, dbUsers>>

\* the calls are made within the life time of the codes
StorNext ==
    \/ BothCreatePendingUser
    \/ BothVerifyEmailToken
    \/ BothCompleteUserRegistration
    \/ BothGetUserByEmail
    \/ Login
    \/ DbLogin

StorSpec == Init /\ [][StorNext]_vars

(***************************************************************************)
(* Password reset: POST /api/auth/forgot-password and                      *)
(* POST /api/auth/reset-password (server/routes.ts).  resetTokens holds,   *)
(* for the users that have one, resetToken and resetTokenExpiry; a user    *)
(* without an element there has null for both.                             *)
(***************************************************************************)
\* resetPasswordSchema
resetPasswordSchema(body) == IsEmail(body.email)

\* verifyResetTokenSchema
verifyResetTokenSchema(body) ==
    /\ IsEmail(body.email)
    /\ Len(body.token) >= MinTokenLen
    /\ Len(body.newPassword) >= MinPasswordLen
    /\ body.newPassword = body.confirmPassword

\* user.resetToken / user.resetTokenExpiry of the user id, Undefined for
\* null
ResetTokenOf(rts, id) == MapGet(rts, "id", id)

\* updateUser(id, { resetToken, resetTokenExpiry })
updateUserResetToken(us, rts, id, resetToken, resetTokenExpiry) ==
    IF MapGet(us, "id", id) = Undefined
    THEN [error |-> "User not found", users |-> us, resetTokens |-> rts]
    ELSE [error |-> "", users |-> us,
          resetTokens |-> MapSet(rts, "id",
                              [id |-> id, resetToken |-> resetToken,
                               resetTokenExpiry |-> resetTokenExpiry])]

\* a slip of the reset: the token stays after the password is set
updateUserPassword_keepsToken(us, rts, id, newPassword) ==
    [error |-> "",
     users |-> {IF u.id = id THEN [u EXCEPT !.password = newPassword]
                ELSE u : u \in us},
     resetTokens |-> rts]

\* updateUser(id, { password, resetToken: null, resetTokenExpiry: null })
updateUserPassword(us, rts, id, newPassword) ==
    LET user == MapGet(us, "id", id)
    IN  IF user = Undefined
        THEN [error |-> "User not found", users |-> us, resetTokens |-> rts]
        ELSE [error |-> "",
              users |-> MapSet(us, "id",
                               [user EXCEPT !.password = newPassword]),
              resetTokens |-> MapDelete(rts, "id", id)]

\* POST /api/auth/forgot-password
ForgotPassword ==
    \E email \in LoginEmails, resetToken \in Tokens :
        LET body == [email |-> email]
            user == getUserByEmail(users, email)
            done == updateUserResetToken(users, resetTokens, user.id,
                                         resetToken, now + TokenTTL)
            request == [op |-> "forgot", email |-> email,
                        token |-> resetToken, status |-> 200]
        IN  IF ~resetPasswordSchema(body)
            THEN /\ last' = [request EXCEPT !.status = 400]
                 /\ UNCHANGED <<regVars, invVars, addrVars, currentIds, session, now, verified, inflight, userJson, resetTokens, dbUsers>>
            ELSE IF user = Undefined
            THEN /\ last' = [request EXCEPT !.status = 404]
                 /\ UNCHANGED <<regVars, invVars, addrVars, currentIds, session, now, verified, inflight, userJson, resetTokens, dbUsers>>
            ELSE /\ resetTokens' = done.resetTokens
                 /\ last' = [request EXCEPT
                                 !.status =
                                     IF sendVerificationEmail(TRUE)
                                     THEN 200 ELSE 500]
                 \* updateUser is wrapped: backupUserData runs after it
                 /\ \E requireDefined \in RequireOutcomes(userJson) :
                        userJson' = backupUserData(userJson, requireDefined,
                                                   done.users,
                                                   done.resetTokens)
                 /\ UNCHANGED <<regVars, invVars, addrVars, currentIds, session, now, verified, inflight, dbUsers>>

\* POST /api/auth/reset-password.  storedToken, storedExpiry,
\* passwordBefore: the user before the request ("" and -1 for none);
\* repeated: the request before this one was the same and was accepted
ResetPassword ==
    \E email \in LoginEmails, token \in TokenInputs,
       newPassword \in PasswordInputs :
    \E confirmPassword \in ConfirmInputs(newPassword) :
        LET body == [email |-> email, token |-> token,
                     newPassword |-> newPassword,
                     confirmPassword |-> confirmPassword]
            user == getUserByEmail(users, email)
            stored == IF user = Undefined THEN Undefined
                      ELSE ResetTokenOf(resetTokens, user.id)
            done == updateUserPassword(users, resetTokens, user.id,
                                       newPassword)
            request ==
                [op |-> "reset", email |-> email, token |-> token,
                 newPassword |-> newPassword, status |-> 400,
                 storedToken |-> IF stored = Undefined THEN ""
                                 ELSE stored.resetToken,
                 storedExpiry |-> IF stored = Undefined THEN -1
                                  ELSE stored.resetTokenExpiry,
                 passwordBefore |-> IF user = Undefined THEN ""
                                    ELSE user.password,
                 repeated |-> /\ last.op = "reset"
                              /\ last.status = 200
                              /\ last.email = email
                              /\ last.token = token]
        IN  IF ~verifyResetTokenSchema(body)
            THEN /\ last' = request
                 /\ UNCHANGED <<regVars, invVars, addrVars, currentIds, session, now, verified, inflight, userJson, resetTokens, dbUsers>>
            ELSE IF user = Undefined \/ stored = Undefined
            THEN /\ last' = request
                 /\ UNCHANGED <<regVars, invVars, addrVars, currentIds, session, now, verified, inflight, userJson, resetTokens, dbUsers>>
            ELSE IF stored.resetToken # token
            THEN /\ last' = request
                 /\ UNCHANGED <<regVars, invVars, addrVars, currentIds, session, now, verified, inflight, userJson, resetTokens, dbUsers>>
            ELSE IF Expired(now, stored.resetTokenExpiry)
            THEN /\ last' = request
                 /\ UNCHANGED <<regVars, invVars, addrVars, currentIds, session, now, verified, inflight, userJson, resetTokens, dbUsers>>
            ELSE /\ users' = done.users
                 /\ resetTokens' = done.resetTokens
                 /\ last' = [request EXCEPT !.status = 200]
                 \* updateUser is wrapped: backupUserData runs after it
                 /\ \E requireDefined \in RequireOutcomes(userJson) :
                        userJson' = backupUserData(userJson, requireDefined,
                                                   done.users,
                                                   done.resetTokens)
                 /\ UNCHANGED <<pendingUsers, invVars, addrVars, currentIds, session, now, verified, inflight, dbUsers>>

ResetNext == Tick \/ ForgotPassword \/ ResetPassword

ResetSpec == Init /\ [][ResetNext]_vars

(***************************************************************************)
(* Properties of the registration flow (RegSpec).                          *)
(***************************************************************************)
\* C1: while a pending record for an e-mail holds code c and has not
\* expired, a verify request for that e-mail is answered valid exactly when
\* the code sent is c.
C1_VerifyAcceptsExactlyIssuedCode ==
    last.op = "verify" =>
        \A p \in pendingUsers :
            (p.email = last.email /\ now <= p.verificationTokenExpiry)
                => (last.isValid <=> last.token = p.verificationToken)

\* a verify request with the stored code, before the expiry, answered valid
C1_Witness ==
    /\ last.op = "verify"
    /\ last.isValid
    /\ last.status = 200
    /\ \E p \in pendingUsers :
           /\ p.email = last.email
           /\ p.verificationToken = last.token
           /\ now < p.verificationTokenExpiry

\* C2: the expiry stored by init is the time of the init plus 30 minutes,
\* and a verify request with the stored code is answered valid exactly
\* while now <= expiry: valid at now = expiry, invalid from expiry + 1 on.
C2_VerifyValidUntilExpiry ==
    /\ (last.op = "init" /\ last.stored) =>
           \E p \in pendingUsers :
               /\ p.email = last.email
               /\ p.verificationTokenExpiry = now + 30 * 60 * 1000
    /\ last.op = "verify" =>
           \A p \in pendingUsers :
               (p.email = last.email /\ p.verificationToken = last.token)
                   => (last.isValid <=> now <= p.verificationTokenExpiry)

\* a verify request with the stored code 1 ms after the expiry, refused
C2_Witness ==
    /\ last.op = "verify"
    /\ ~last.isValid
    /\ \E p \in pendingUsers :
           /\ p.email = last.email
           /\ p.verificationToken = last.token
           /\ now = p.verificationTokenExpiry + 1

\* C3: a complete request with a well-formed body for an e-mail that has a
\* pending record succeeds; after a successful one the store holds the new
\* user with that e-mail and password and isVerified = true, it is the user
\* getUserByEmail finds (the first one with that e-mail), and no pending
\* record for the e-mail is left.
C3_CompleteCreatesVerifiedUser ==
    last.op = "complete" =>
        /\ (last.hadPending /\ last.valid) => last.status = 200
        /\ last.status = 200 =>
               /\ \E u \in users :
                      /\ u.id = last.userId
                      /\ u.email = last.email
                      /\ u.password = last.password
                      /\ u.isVerified = TRUE
                      /\ \A v \in users : v.email = last.email => u.id <= v.id
               /\ \A p \in pendingUsers : p.email # last.email

\* a complete request that created a user
C3_Witness ==
    /\ last.op = "complete"
    /\ last.hadPending
    /\ last.status = 200
    /\ \E u \in users : u.id = last.userId /\ u.email = last.email

\* C4: a complete request for an e-mail without a pending record is
\* answered 400, with the not-found message when the body is well formed,
\* and leaves users, pending records and the id counter as they were.
C4_CompleteWithoutPendingFails ==
    [][(/\ last'.op = "complete"
        /\ ~\E p \in pendingUsers : p.email = last'.email)
          => /\ last'.status = 400
             /\ last'.valid =>
                    last'.error = "No pending registration found for this email"
             /\ users' = users
             /\ pendingUsers' = pendingUsers
             /\ currentIds' = currentIds]_vars

\* the second complete request for an e-mail registered by the first one
C4_Witness ==
    /\ last.op = "complete"
    /\ last.error = "No pending registration found for this email"
    /\ \E u \in users : u.email = last.email /\ u.email \in NewEmails

\* C9: no e-mail has two pending records, no e-mail of a user has a pending
\* record, and an init request for the e-mail of a user is refused with 400
\* and stores nothing.
C9_PendingOnlyForUnregisteredEmails ==
    /\ \A p, q \in pendingUsers : p.email = q.email => p = q
    /\ \A p \in pendingUsers : \A u \in users : u.email # p.email
    /\ (last.op = "init" /\ \E u \in users : u.email = last.email)
           => (~last.stored /\ last.status = 400)

\* an init request for an e-mail registered through the flow, refused
\* while another e-mail is pending
C9_Witness ==
    /\ last.op = "init"
    /\ ~last.stored
    /\ \E u \in users : u.email = last.email /\ u.email \in NewEmails
    /\ pendingUsers # {}

C11_InitSucceedsWhenChannelDelivers ==
    (/\ last.op = "init"
     /\ IsEmail(last.email)
     /\ ~\E u \in users : u.email = last.email)
        => (last.status = 200 <=> last.emailSent)

\* C12: an init request for the e-mail of a user is answered 400, issues
\* and sends no code, and leaves the users and the pending records as they
\* were.
C12_InitForRegisteredEmailRejected ==
    [][(/\ last'.op = "init"
        /\ \E u \in users : u.email = last'.email)
          => /\ last'.status = 400
             /\ ~last'.stored
             /\ last'.token = ""
             /\ ~last'.emailSent
             /\ users' = users
             /\ pendingUsers' = pendingUsers]_vars

\* an init request for the seeded user's e-mail, refused while a
\* registration is pending
C12_Witness ==
    /\ last.op = "init"
    /\ last.email = AdminEmail
    /\ last.status = 400
    /\ ~last.emailSent
    /\ pendingUsers # {}

\* C13: a verify request, accepted or not, leaves the users, the pending
\* records (code and expiry included) and the id counter as they were, so
\* a request that was accepted would be accepted again at once.
C13_VerifyChangesNoState ==
    [][last'.op = "verify"
          => /\ users' = users
             /\ pendingUsers' = pendingUsers
             /\ currentIds' = currentIds
             /\ last'.isValid =>
                    verifyEmailToken(pendingUsers', now', last'.email,
                                     last'.token)]_vars

\* a code accepted for the second time, its record still stored
C13_Witness ==
    /\ last.op = "verify"
    /\ last.isValid
    /\ last.wasVerified
    /\ \E p \in pendingUsers :
           p.email = last.email /\ p.verificationToken = last.token

\* C14: a complete request with a well-formed body succeeds exactly when
\* the e-mail has a pending record: also when no verify request was ever
\* accepted for the record, and also when its code has expired.
C14_CompleteNeedsOnlyPendingRecord ==
    (last.op = "complete" /\ last.valid) =>
        /\ last.status = 200 <=> last.hadPending
        /\ (last.hadPending /\ (last.expired \/ ~last.wasVerified))
               => last.status = 200

\* a registration completed after the code expired, with no verify request
\* ever accepted for it
C14_Witness ==
    /\ last.op = "complete"
    /\ last.status = 200
    /\ last.expired
    /\ ~last.wasVerified
    /\ \E u \in users : u.id = last.userId /\ u.email = last.email

(***************************************************************************)
(* Properties of the inventory (InvSpec).                                  *)
(***************************************************************************)
\* C5: a successful stock adjustment by delta sets the product's stock to
\* max(0, stock before + delta) and appends one ledger entry for the
\* product whose quantity is delta itself; an adjustment of an existing
\* product by a number, sent with a session, is successful.
C5_StockClampedLedgerVerbatim ==
    last.op = "stock" =>
        /\ (/\ session # Undefined
            /\ last.quantity # NotANumber
            /\ last.productId \in {p.id : p \in products})
               => last.status = 200
        /\ last.status = 200 =>
               LET sum == last.stockBefore + last.quantity.value
               IN  /\ \E p \in products :
                          /\ p.id = last.productId
                          /\ p.stock = IF sum >= 0 THEN sum ELSE 0
                   /\ Len(inventoryLogs) = last.logsBefore + 1
                   /\ inventoryLogs[Len(inventoryLogs)].productId = last.productId
                   /\ inventoryLogs[Len(inventoryLogs)].quantity = last.quantity.value

\* stock 10 adjusted by -1000: stock 0, ledger quantity -1000
C5_Witness ==
    /\ last.op = "stock"
    /\ last.status = 200
    /\ last.stockBefore = 10
    /\ last.quantity = [value |-> -1000]
    /\ \E p \in products : p.id = last.productId /\ p.stock = 0
    /\ inventoryLogs[Len(inventoryLogs)].quantity = -1000

C8_LowStockAsSpecified ==
    (last.op = "low-stock" /\ last.status = 200) =>
        LET Limit(p) == IF last.threshold # Undefined
                        THEN last.threshold.value ELSE p.minStock
            low == {p \in products : p.stock <= Limit(p)}
            n == Len(last.products)
        IN  /\ {last.products[i] : i \in 1..n} = low
            /\ n = Cardinality(low)
            /\ \A i, j \in 1..n :
                   i < j => last.products[i].stock <= last.products[j].stock

\* C15: a stock adjustment of a product id that no product has, sent with
\* a session and a number, fails with "Product not found" (the route
\* answers 500) and leaves every stock, the ledger and the ledger's id
\* counter as they were.
C15_UnknownProductFails ==
    [][(/\ last'.op = "stock"
        /\ session # Undefined
        /\ last'.quantity # NotANumber
        /\ \A p \in products : p.id # last'.productId)
          => /\ last'.status = 500
             /\ last'.error = "Product not found"
             /\ products' = products
             /\ inventoryLogs' = inventoryLogs
             /\ currentInventoryLogId' = currentInventoryLogId]_vars

\* an adjustment of product 9 refused after the ledger got an entry
C15_Witness ==
    /\ last.op = "stock"
    /\ last.productId = 9
    /\ last.status = 500
    /\ last.error = "Product not found"
    /\ Len(inventoryLogs) >= 1
    /\ Len(inventoryLogs) = last.logsBefore

\* C16: no step changes or removes a ledger entry (the ledger before the
\* step is a prefix of the ledger after it), and a successful stock
\* adjustment appends exactly one entry: the product's id, quantity =
\* delta, type "add" if delta > 0 and "remove" otherwise.
C16_LedgerAppendOnly ==
    [][/\ Len(inventoryLogs') >= Len(inventoryLogs)
       /\ SubSeq(inventoryLogs', 1, Len(inventoryLogs)) = inventoryLogs
       /\ (last'.op = "stock" /\ last'.status = 200) =>
              /\ Len(inventoryLogs') = Len(inventoryLogs) + 1
              /\ LET entry == inventoryLogs'[Len(inventoryLogs')]
                     delta == last'.quantity.value
                 IN  /\ entry.productId = last'.productId
                     /\ entry.quantity = delta
                     /\ entry.type = IF delta > 0 THEN "add" ELSE "remove"
                     /\ \A i \in 1..Len(inventoryLogs) :
                            inventoryLogs[i].id # entry.id]_vars

\* an "add" entry appended after a "remove" entry that is still there
C16_Witness ==
    /\ last.op = "stock"
    /\ last.status = 200
    /\ Len(inventoryLogs) >= 2
    /\ inventoryLogs[Len(inventoryLogs)].type = "add"
    /\ inventoryLogs[Len(inventoryLogs) - 1].type = "remove"
    /\ inventoryLogs[Len(inventoryLogs) - 1].quantity < 0

\* the stock a seeded product was created with
InitialStock(productId) ==
    (CHOOSE p \in SeededProducts.products : p.id = productId).stock

\* the sum of the quantities of the ledger entries of a product
RECURSIVE LedgerSum(_, _)
LedgerSum(logs, productId) ==
    IF logs = <<>> THEN 0
    ELSE (IF Head(logs).productId = productId THEN Head(logs).quantity ELSE 0)
             + LedgerSum(Tail(logs), productId)

\* the stock that results from applying the ledger entries of a product
\* in order, never going below zero
RECURSIVE LedgerReplay(_, _, _)
LedgerReplay(logs, productId, stock) ==
    IF logs = <<>> THEN stock
    ELSE LedgerReplay(Tail(logs), productId,
             IF Head(logs).productId # productId THEN stock
             ELSE IF stock + Head(logs).quantity < 0 THEN 0
             ELSE stock + Head(logs).quantity)

\* the lowest value the running total initial stock + quantities takes
\* along the ledger entries of a product, the start included
RECURSIVE LedgerLow(_, _, _)
LedgerLow(logs, productId, total) ==
    IF logs = <<>> THEN total
    ELSE LET next == IF Head(logs).productId = productId
                     THEN total + Head(logs).quantity ELSE total
             low == LedgerLow(Tail(logs), productId, next)
         IN  IF low < total THEN low ELSE total

\* C17 as stated: after any sequence of stock adjustments, for every
\* product the sum of the quantities of its ledger entries equals its
\* current stock minus its initial stock.
C17_LedgerSumReconciles ==
    \A p \in products :
        LedgerSum(inventoryLogs, p.id) = p.stock - InitialStock(p.id)

\* C17 as amended: after any sequence of stock adjustments, every product's
\* current stock is what results from applying the quantities of its
\* ledger entries in order to its initial stock, stopping at zero; so the
\* sum of the quantities is at most current stock minus initial stock, and
\* equal to it as long as no adjustment would have taken the stock below
\* zero.
C17_LedgerReplaysToStock ==
    \A p \in products :
        /\ p.stock = LedgerReplay(inventoryLogs, p.id, InitialStock(p.id))
        /\ LedgerSum(inventoryLogs, p.id) <= p.stock - InitialStock(p.id)
        /\ LedgerLow(inventoryLogs, p.id, InitialStock(p.id)) >= 0
               => LedgerSum(inventoryLogs, p.id) = p.stock - InitialStock(p.id)

\* an adjustment was cut short at zero and another one was made after it:
\* the sum of the ledger is below the change of the stock
C17_Witness ==
    /\ last.op = "stock"
    /\ last.status = 200
    /\ Len(inventoryLogs) >= 2
    /\ \E p \in products :
           /\ p.id = last.productId
           /\ p.stock > 0
           /\ LedgerSum(inventoryLogs, p.id) < p.stock - InitialStock(p.id)

\* C18: a stock adjustment with quantity 0 is not accepted: it is not
\* answered 200, no stock changes and no ledger entry is appended.
C18_ZeroDeltaNotAccepted ==
    (last.op = "stock" /\ last.quantity = [value |-> 0]) =>
        /\ last.status # 200
        /\ Len(inventoryLogs) = last.logsBefore
        /\ \A p \in products :
               p.id = last.productId => p.stock = last.stockBefore

\* C19: the stock update and its ledger append are one unit: no request
\* that reads the products and the ledger while an adjustment is being made
\* sees a stock changed by an adjustment whose ledger entry is not there.
C19_StockAndLedgerOneUnit ==
    last.op = "db-read" => last.unlogged = {}

(***************************************************************************)
(* Properties of the sessions (AuthSpec).                                  *)
(***************************************************************************)
\* C20: a login request establishes a session only when a stored user has
\* the e-mail and the password sent and is not suspended, and then for
\* that user; when no user has that e-mail and password it is answered
\* 401, when the user is suspended 403, and a request that is not answered
\* 200 leaves the session as it was.
C20_LoginEstablishesSessionOnlyForValidUser ==
    [][last'.op = "login" =>
          LET matching == {u \in users : /\ u.email = last'.email
                                         /\ u.password = last'.password}
          IN  /\ last'.status = 200 =>
                     \E u \in matching :
                         /\ ~u.isSuspended
                         /\ session' = [id |-> u.id, email |-> u.email]
              /\ (IsEmail(last'.email) /\ matching = {}) => last'.status = 401
              /\ (\E u \in matching : u.isSuspended) => last'.status = 403
              /\ last'.status # 200 => session' = session]_vars

\* a registered user, suspended by the administrator, sent the right
\* password and was answered 403; the administrator's session stays
C20_Witness ==
    /\ last.op = "login"
    /\ last.status = 403
    /\ session # Undefined
    /\ session.email = AdminEmail
    /\ \E u \in users :
           /\ u.email = last.email
           /\ u.email # AdminEmail
           /\ u.password = last.password
           /\ u.isSuspended

\* C21: a request to an admin route (list users, toggle-suspension,
\* toggle-admin) is executed only when it comes with a session whose user
\* has isAdmin = true in the user store at that time; any other request is
\* answered 401 or 403 and changes neither the users nor the snapshot file.
C21_AdminRoutesOnlyForStoreAdmins ==
    [][last'.op \in {"list-users", "toggle-suspension", "toggle-admin"} =>
          LET storeAdmin == /\ session # Undefined
                            /\ \E u \in users :
                                   u.id = session.id /\ u.isAdmin
          IN  storeAdmin \/ (/\ last'.status \in {401, 403}
                             /\ users' = users
                             /\ userJson' = userJson)]_vars

\* C22: whichever operation wrote user.json last (the periodic job, a
\* wrapped user call, or getAllUsers called for the admin's user list), no
\* user in the file has a password or a reset token.
C22_SnapshotHasNoSecrets ==
    userJson.written =>
        \A u \in userJson.users :
            /\ "password" \notin DOMAIN u
            /\ "resetToken" \notin DOMAIN u

\* C23: also when complete requests for one e-mail overlap, at most one of
\* them creates a user: no two users have the same e-mail.
C23_OneUserPerEmail ==
    \A u, v \in users : u.email = v.email => u.id = v.id

\* the stocks that result from applying the ledger entries at the positions
\* todo of a product one after the other, in any order, never below zero
RECURSIVE SerialStocks(_, _, _)
SerialStocks(logs, todo, stock) ==
    IF todo = {} THEN {stock}
    ELSE UNION {SerialStocks(logs, todo \ {i},
                             ClampAtZero(stock + logs[i].quantity)) :
                    i \in todo}

\* C24: no stock update is lost: once every call has returned, the stock of
\* each product is what results from applying the deltas of its calls one
\* after the other in some order, stopping at zero.
C24_NoLostUpdate ==
    inflight = {} =>
        \A p \in products :
            p.stock \in SerialStocks(inventoryLogs,
                            {i \in 1..Len(inventoryLogs) :
                                 inventoryLogs[i].productId = p.id},
                            InitialStock(p.id))

\* C25: under DatabaseStorage, once every address call has returned, no
\* user has two primary addresses, also when the calls overlapped.
C25_DbAtMostOnePrimary ==
    inflight = {} =>
        \A userId \in UserIds :
            Cardinality({a \in addresses : /\ a.userId = userId
                                           /\ a.isPrimary = "true"}) <= 1

\* C29: an updateUserAddress that fails with the not-found error has taken
\* the primary flag from no address, under MemStorage and under
\* DatabaseStorage.
C29_FailedUpdateChangesNothing ==
    /\ last.op = "db-updateUserAddress" /\ last.error # "" =>
           ~last.lostPrimary
    /\ last.op = "updateUserAddress" /\ last.error # "" =>
           \/ ~last.hadPrimary
           \/ \E a \in addresses : /\ a.userId = last.userId
                                   /\ a.isPrimary = "true"

\* C26: every registration call returns or throws the same under MemStorage
\* and under DatabaseStorage, after the same calls on both.
C26_StoragesAgree ==
    last.op \in {"createPendingUser", "verifyEmailToken",
                 "completeUserRegistration", "getUserByEmail"} =>
        last.mem = last.db

\* C27: a login that establishes a session is for an e-mail that is not
\* pending, under MemStorage and under DatabaseStorage.
C27_NoSessionForPendingEmail ==
    /\ last.op = "db-login" /\ last.status = 200 => ~last.wasPending
    /\ last.op = "login" /\ last.status = 200 =>
           getPendingUserByEmail(pendingUsers, last.email) = Undefined

\* C28: an init request answered with 400 or 500 has stored no pending
\* record: the pending store is as it was before the request.
C28_FailedInitStoresNothing ==
    last.op = "init" /\ last.status \in {400, 500} => ~last.stored

\* C30: password reset is single-use and time-limited.  forgot-password
\* stores a code that expires 30 minutes later; reset-password sets the new
\* password only when the code sent equals the stored one and the time is
\* not after its expiry, and then the stored code is gone; every other
\* reset-password, and the same request sent again, is refused and leaves
\* the password and the stored code as they were.
C30_ResetSingleUseAndTimeLimited ==
    LET user == getUserByEmail(users, last.email)
        stored == ResetTokenOf(resetTokens, user.id)
    IN  /\ last.op = "forgot" /\ last.status = 200 =>
               /\ stored # Undefined
               /\ stored.resetToken = last.token
               /\ stored.resetTokenExpiry = now + TokenTTL
        /\ last.op = "reset" /\ last.status = 200 =>
               /\ last.storedToken # ""
               /\ last.token = last.storedToken
               /\ now <= last.storedExpiry
               /\ last.storedExpiry <= now + TokenTTL
               /\ user.password = last.newPassword
               /\ stored = Undefined
        /\ last.op = "reset" /\ last.status # 200 /\ user # Undefined =>
               /\ user.password = last.passwordBefore
               /\ last.storedToken = IF stored = Undefined THEN ""
                                     ELSE stored.resetToken
        /\ last.op = "reset" /\ last.repeated => last.status = 400

\* a reset-password sent a second time with the code that was just used is
\* refused, and the password is the one the first request set
C30_Witness ==
    /\ last.op = "reset"
    /\ last.repeated
    /\ last.status = 400
    /\ last.storedToken = ""
    /\ getUserByEmail(users, last.email).password = last.newPassword

====
